---- MODULE Spec2Model ----
(***************************************************************************)
(* A model of the bloop SDK client (BloopClient, Trace, Span and the       *)
(* provider wrappers).                                                     *)
(*                                                                         *)
(* Six specifications share the module:                                    *)
(*   Spec      the delivery pipeline: the two buffers, the flush triggers  *)
(*             and the asynchronous steps of every flush;                  *)
(*   SpecLive  Spec with the fairness of the timer, the key derivation and *)
(*             the resumption of suspended flushes;                        *)
(*   SpecCall  instrumented provider calls (_traceOpenAICall and           *)
(*             _traceAnthropicCall) with the Trace and Span they drive;    *)
(*   SpecWrap  property reads through the proxies of wrapOpenAI and        *)
(*             wrapAnthropic;                                              *)
(*   SpecTrace traces and spans driven by the application (startTrace,     *)
(*             startSpan, Span.end, Trace.end);                            *)
(*   SpecGen   traceGeneration and the callback it awaits.                 *)
(*                                                                         *)
(* JavaScript runs one thread: an async function runs without interruption *)
(* up to its next await, so every action below is one such run.            *)
(***************************************************************************)
EXTENDS Integers, Sequences, FiniteSets, TLC

VARIABLES
    buffer,       \* BloopClient.buffer: pending error events
    traceBuffer,  \* BloopClient.traceBuffer: pending trace payloads
    timer,        \* BloopClient.timer is not null
    keyReady,     \* the promise keyReady is resolved (signingKey is set)
    flushes,      \* every invocation of flush(), in invocation order
    closes,       \* every invocation of close(), in invocation order
    nextItem,     \* the number the next enqueued item gets
    now,          \* Date.now()
    traces,       \* the Trace objects created so far
    spans,        \* the Span objects created so far
    calls,        \* the calls of intercepted methods (of traceGeneration in
                  \* SpecGen) made so far
    modelCosts,   \* BloopClient._modelCosts: the rates set by setModelCosts
    objs,         \* the provider client object and its nested objects
    lastRead      \* the last property read through a wrapper

pipeVars == <<buffer, traceBuffer, timer, keyReady, flushes, closes, nextItem>>
callVars == <<now, traces, spans, calls, modelCosts>>
wrapVars == <<objs, lastRead>>
vars == <<buffer, traceBuffer, timer, keyReady, flushes, closes, nextItem,
          now, traces, spans, calls, modelCosts, objs, lastRead>>

Range(s) == {s[i] : i \in 1..Len(s)}

\* JavaScript values where a field may hold undefined or null beside a
\* number or a string: the value x is V(x).
VUndef == [tag |-> "undefined"]
VNull == [tag |-> "null"]
V(x) == [tag |-> "val", v |-> x]

----------------------------------------------------------------------------
(* Bounds of the model.                                                    *)

\* Items (error events and trace payloads together) enqueued in one run.
MaxItems == 3
\* Invocations of flush() in one run, whatever their trigger.
MaxFlushes == 2
\* Invocations of close() in one run.
MaxCloses == 2
\* Assignments the application makes to properties of the wrapped client.
MaxSets == 1
\* Calls of intercepted methods in one run.
MaxCalls == 2
\* The latest value of the clock.
MaxClock == 1
\* Calls of setModelCosts in one run.
MaxCostSets == 1
\* config.maxBufferSize of the modelled client (the default is 20).
maxBufferSize == 2

----------------------------------------------------------------------------
(* The delivery pipeline.                                                  *)

ERRORS == "err"
TRACES == "trc"
Endpoints == {ERRORS, TRACES}

\* The buffer an endpoint's flush drains.
BufOf(w) == IF w = ERRORS THEN buffer ELSE traceBuffer

\* A variant of splice that copies the buffer and leaves it as it was
\* (Array.prototype.slice).
sliceCopy(buf) == [removed |-> buf, rest |-> buf]

\* A variant of splice that removes the first element only (splice(0, 1)).
spliceOne(buf) ==
    [removed |-> IF Len(buf) = 0 THEN <<>> ELSE <<Head(buf)>>,
     rest |-> IF Len(buf) = 0 THEN <<>> ELSE Tail(buf)]

\* buf.splice(0): removes every element and returns them, in order.
splice(buf) == [removed |-> buf, rest |-> <<>>]

\* A variant of the emptiness test that lets every flush through.
NeverEmpty(buf) == FALSE

\* A variant of the emptiness test that lets no flush through.
AlwaysEmpty(buf) == TRUE

\* `if (this.buffer.length === 0) return;`
IsEmpty(buf) == Len(buf) = 0

\* One of the two async functions a flush starts.  An empty buffer makes it
\* return at once; otherwise it runs up to `await this.keyReady`.
NewTask(buf) ==
    [pc |-> IF IsEmpty(buf) THEN "skipped" ELSE "awaitKey",
     batch |-> <<>>,
     outcome |-> "none"]

\* flush(): starts _flushErrors and _flushTraces one after the other, both
\* before anything is awaited.  errAt and trcAt record the buffers as the
\* invocation found them, early whether it came before the key was derived.
NewFlush(errBuf, trcBuf) ==
    [errAt |-> errBuf,
     trcAt |-> trcBuf,
     early |-> ~keyReady,
     err |-> NewTask(errBuf),
     trc |-> NewTask(trcBuf)]

Finished(task) == task.pc \in {"skipped", "done"}

\* A variant of Promise.all that settles with the first task (Promise.race).
PromiseRace(f) == Finished(flushes[f].err) \/ Finished(flushes[f].trc)

\* `await Promise.all([flushErrors, flushTraces])`: the promise of flush f is
\* resolved once both tasks have run to their end.
PromiseAll(f) == Finished(flushes[f].err) /\ Finished(flushes[f].trc)

\* The promise of flush f rejects as soon as one of its tasks rejects.
FlushRejected(f) ==
    flushes[f].err.pc = "rejected" \/ flushes[f].trc.pc = "rejected"

\* Reactions to one promise run in the order they were registered: a task
\* that awaited keyReady earlier resumes earlier.
KeyWaiterBefore(f, w) ==
    \E g \in 1..(f - 1) : flushes[g][w].pc = "awaitKey"

\* The constructor's importKey() completes: signingKey is set and keyReady
\* resolves.
KeyDerived ==
    /\ ~keyReady
    /\ keyReady' = TRUE
    /\ UNCHANGED <<buffer, traceBuffer, timer, flushes, closes, nextItem>>

\* A variant of the threshold test that waits for one event more.
OverThreshold(len) == len > maxBufferSize

\* `this.buffer.length >= (this.config.maxBufferSize ?? 20)`
ReachedThreshold(len) == len >= maxBufferSize

\* capture(event): push, then an unawaited flush() once the buffer holds
\* maxBufferSize events.
Capture ==
    /\ nextItem <= MaxItems
    /\ LET pushed == Append(buffer, nextItem)
           full == ReachedThreshold(Len(pushed))
       IN /\ full => Len(flushes) < MaxFlushes
          /\ buffer' = pushed
          /\ flushes' = IF full
                        THEN Append(flushes, NewFlush(pushed, traceBuffer))
                        ELSE flushes
    /\ nextItem' = nextItem + 1
    /\ UNCHANGED <<traceBuffer, timer, keyReady, closes>>

\* A variant of the push that keeps one live entry per trace: the earlier
\* payloads of the same trace are replaced by the new one.
pushLive(payload) ==
    Append([i \in 1..Len(traceBuffer) |->
               IF traceBuffer[i].id = payload.id THEN payload ELSE traceBuffer[i]],
           payload)

\* A variant of the push for a buffer that holds at most maxBufferSize
\* payloads: the oldest one makes room.
pushBounded(payload) ==
    IF Len(traceBuffer) >= maxBufferSize
    THEN Append(Tail(traceBuffer), payload)
    ELSE Append(traceBuffer, payload)

\* A variant of the push that ignores a payload whose trace id is in the
\* buffer already.
pushOnce(payload) ==
    IF \E i \in 1..Len(traceBuffer) : traceBuffer[i].id = payload.id
    THEN traceBuffer
    ELSE Append(traceBuffer, payload)

\* A variant of the push that puts the payload at the head of the buffer.
pushFront(payload) == <<payload>> \o traceBuffer

\* _pushTrace(payload), called by Trace.end: push only.
pushTrace(payload) == Append(traceBuffer, payload)

\* Trace.end of some trace, seen from the pipeline: one payload is enqueued.
EnqueueTrace ==
    /\ nextItem <= MaxItems
    /\ traceBuffer' = pushTrace(nextItem)
    /\ nextItem' = nextItem + 1
    /\ UNCHANGED <<buffer, timer, keyReady, flushes, closes>>

\* The setInterval callback `() => this.flush()`.
TimerTick ==
    /\ timer
    /\ Len(flushes) < MaxFlushes
    /\ flushes' = Append(flushes, NewFlush(buffer, traceBuffer))
    /\ UNCHANGED <<buffer, traceBuffer, timer, keyReady, closes, nextItem>>

\* flush() called by the application.
Flush ==
    /\ Len(flushes) < MaxFlushes
    /\ flushes' = Append(flushes, NewFlush(buffer, traceBuffer))
    /\ UNCHANGED <<buffer, traceBuffer, timer, keyReady, closes, nextItem>>

\* A variant of close() that leaves the interval timer running.
KeepTimer(t) == t

\* `if (this.timer) { clearInterval(this.timer); this.timer = null; }`
ClearTimer(t) == FALSE

\* close(): clears the timer and calls flush(), up to `await this.flush()`.
\* upto records how many items had been enqueued when close() was called.
Close ==
    /\ Len(closes) < MaxCloses
    /\ Len(flushes) < MaxFlushes
    /\ timer' = ClearTimer(timer)
    /\ flushes' = Append(flushes, NewFlush(buffer, traceBuffer))
    /\ closes' = Append(closes, [flush |-> Len(flushes) + 1,
                                 upto |-> nextItem,
                                 resolved |-> FALSE])
    /\ UNCHANGED <<buffer, traceBuffer, keyReady, nextItem>>

\* close() resumes after `await this.flush()` and resolves.
CloseReturn(c) ==
    /\ ~closes[c].resolved
    /\ PromiseAll(closes[c].flush)
    /\ closes' = [closes EXCEPT ![c].resolved = TRUE]
    /\ UNCHANGED <<buffer, traceBuffer, timer, keyReady, flushes, nextItem>>

\* A variant of the flush that does not wait for the key.
KeyNotAwaited == TRUE

\* `await this.keyReady` lets the task go on once importKey() has completed.
KeyResolved == keyReady

\* _flushErrors / _flushTraces resumes after `await this.keyReady`: the
\* buffer is drained with splice(0), the body is built, and sign(body) runs
\* up to `await crypto.subtle.sign(...)`.
Drain(f, w) ==
    /\ flushes[f][w].pc = "awaitKey"
    /\ KeyResolved
    /\ ~KeyWaiterBefore(f, w)
    /\ LET s == splice(BufOf(w))
       IN /\ flushes' = [flushes EXCEPT ![f][w].pc = "awaitSign",
                                        ![f][w].batch = s.removed]
          /\ IF w = ERRORS
             THEN buffer' = s.rest /\ UNCHANGED traceBuffer
             ELSE traceBuffer' = s.rest /\ UNCHANGED buffer
    /\ UNCHANGED <<timer, keyReady, closes, nextItem>>

\* The signature arrives: the headers are built and fetch is called with the
\* batch, up to `await fetch(...)`.
SignDone(f, w) ==
    /\ flushes[f][w].pc = "awaitSign"
    /\ flushes' = [flushes EXCEPT ![f][w].pc = "awaitFetch"]
    /\ UNCHANGED <<buffer, traceBuffer, timer, keyReady, closes, nextItem>>

\* What fetch can do: a response with ok, a response with another status
\* (resp.ok is false), a network error (fetch rejects).
FetchOutcomes == {"ok", "badStatus", "netError"}

\* What the task keeps of the outcome: both failures are only logged.
Recorded(outcome) == IF outcome = "ok" THEN "ok" ELSE "failed"

\* A variant of the failure handling that lets a failed fetch reject the task.
Rethrow(outcome) == IF outcome = "ok" THEN "done" ELSE "rejected"

\* try { resp = await fetch(...); if (!resp.ok) warn } catch { warn }: the
\* task runs to its end whatever the fetch did.
AfterFetch(outcome) == "done"

\* A variant of the failure handling that puts a failed batch back.
RequeueFailed(buf, batch, outcome) == IF outcome = "ok" THEN buf ELSE batch \o buf

\* Neither branch of the failure handling touches the buffer.
BufferAfterFetch(buf, batch, outcome) == buf

\* The fetch settles: a response with ok, a response with another status, or
\* a network error.
FetchSettle(f, w, outcome) ==
    /\ flushes[f][w].pc = "awaitFetch"
    /\ flushes' = [flushes EXCEPT ![f][w].pc = AfterFetch(outcome),
                                  ![f][w].outcome = Recorded(outcome)]
    /\ IF w = ERRORS
       THEN /\ buffer' = BufferAfterFetch(buffer, flushes[f][w].batch, outcome)
            /\ UNCHANGED traceBuffer
       ELSE /\ traceBuffer' = BufferAfterFetch(traceBuffer, flushes[f][w].batch, outcome)
            /\ UNCHANGED buffer
    /\ UNCHANGED <<timer, keyReady, closes, nextItem>>

PipeInit ==
    /\ buffer = <<>>
    /\ traceBuffer = <<>>
    /\ timer = TRUE
    /\ keyReady = FALSE
    /\ flushes = <<>>
    /\ closes = <<>>
    /\ nextItem = 1

CallIdle ==
    /\ now = 0
    /\ traces = <<>>
    /\ spans = <<>>
    /\ calls = <<>>
    /\ modelCosts = <<>>

WrapIdle ==
    /\ objs = <<>>
    /\ lastRead = [tag |-> "none", sets |-> 0]

Init == PipeInit /\ CallIdle /\ WrapIdle

Next ==
    \/ KeyDerived /\ UNCHANGED <<callVars, wrapVars>>
    \/ Capture /\ UNCHANGED <<callVars, wrapVars>>
    \/ EnqueueTrace /\ UNCHANGED <<callVars, wrapVars>>
    \/ TimerTick /\ UNCHANGED <<callVars, wrapVars>>
    \/ Flush /\ UNCHANGED <<callVars, wrapVars>>
    \/ Close /\ UNCHANGED <<callVars, wrapVars>>
    \/ \E c \in 1..Len(closes) : CloseReturn(c) /\ UNCHANGED <<callVars, wrapVars>>
    \/ \E f \in 1..Len(flushes), w \in Endpoints :
           Drain(f, w) /\ UNCHANGED <<callVars, wrapVars>>
    \/ \E f \in 1..Len(flushes), w \in Endpoints :
           SignDone(f, w) /\ UNCHANGED <<callVars, wrapVars>>
    \/ \E f \in 1..Len(flushes), w \in Endpoints, o \in FetchOutcomes :
           FetchSettle(f, w, o) /\ UNCHANGED <<callVars, wrapVars>>

Spec == Init /\ [][Next]_vars

\* The pipeline with its scheduling: the interval timer keeps firing while
\* it is set, a task resumes once the promise it awaits is settled (keyReady,
\* then the signature), and the key derivation the constructor started
\* completes.
TimerFires == TimerTick /\ UNCHANGED <<callVars, wrapVars>>
KeyCompletes == KeyDerived /\ UNCHANGED <<callVars, wrapVars>>
TaskResumes ==
    \E f \in 1..Len(flushes), w \in Endpoints :
        (Drain(f, w) \/ SignDone(f, w)) /\ UNCHANGED <<callVars, wrapVars>>
SpecLive ==
    /\ Init /\ [][Next]_vars
    /\ WF_vars(TimerFires)
    /\ WF_vars(KeyCompletes)
    /\ WF_vars(TaskResumes)

----------------------------------------------------------------------------
(* Properties of the delivery pipeline (checked under Spec).               *)

FlushIds == 1..Len(flushes)
Tasks == FlushIds \X Endpoints
Task(t) == flushes[t[1]][t[2]]

\* The task has drained its buffer into its batch.
HasDrained(task) == task.pc \in {"awaitSign", "awaitFetch", "done", "rejected"}
\* The task has called fetch with its batch.
PassedToTransport(task) == task.pc \in {"awaitFetch", "done", "rejected"}
\* The buffer an invocation of flush found, per endpoint.
AtInvocation(f, w) == IF w = ERRORS THEN flushes[f].errAt ELSE flushes[f].trcAt
Other(w) == IF w = ERRORS THEN TRACES ELSE ERRORS
NoRepeat(s) == \A i, j \in 1..Len(s) : i # j => s[i] # s[j]
Pending == Range(buffer) \cup Range(traceBuffer)

\* C1: under any interleaving of timer ticks, threshold flushes, flush() and
\* close() with enqueues, no item that was enqueued once is contained in two
\* batches passed to the transport, nor twice in one batch.
C1_NoItemInTwoBatches ==
    /\ \A t \in Tasks : PassedToTransport(Task(t)) => NoRepeat(Task(t).batch)
    /\ \A t, u \in Tasks :
           (t # u /\ PassedToTransport(Task(t)) /\ PassedToTransport(Task(u)))
               => Range(Task(t).batch) \cap Range(Task(u).batch) = {}

\* Two flushes of the error buffer are in flight at once, each with a batch
\* of its own at the transport.
C1_Witness ==
    \E f, g \in FlushIds :
        /\ f < g
        /\ flushes[f].err.pc = "awaitFetch" /\ flushes[g].err.pc = "awaitFetch"
        /\ flushes[f].err.batch # <<>> /\ flushes[g].err.batch # <<>>

\* C2: the batch a flush sends consists of exactly the items that were in
\* the buffer at the moment the flush was invoked; an item enqueued while the
\* flush waits is never part of its batch.
C2_BatchIsBufferAtInvocation ==
    \A t \in Tasks : HasDrained(Task(t)) => Task(t).batch = AtInvocation(t[1], t[2])

\* C7: when the transport fails for a batch, the task and its flush still
\* resolve, the items of the failed batch are in no buffer and in no other
\* batch, and the other endpoint's task of the same flush was started and can
\* go on as if nothing had failed.
C7_TransportFailureIsSwallowed ==
    \A t \in Tasks :
        Task(t).outcome = "failed" =>
            LET f == t[1]
                o == Other(t[2])
                sib == flushes[f][o]
            IN /\ Task(t).pc = "done"
               /\ ~FlushRejected(f)
               /\ Range(Task(t).batch) \cap Pending = {}
               /\ \A u \in Tasks : u # t => Range(Task(t).batch) \cap Range(Task(u).batch) = {}
               /\ (sib.pc = "skipped") <=> (AtInvocation(f, o) = <<>>)
               /\ (sib.pc = "awaitKey" /\ keyReady /\ ~KeyWaiterBefore(f, o))
                      => ENABLED Drain(f, o)
               /\ sib.pc = "awaitSign" => ENABLED SignDone(f, o)
               /\ sib.pc = "awaitFetch" => ENABLED FetchSettle(f, o, "ok")

\* The error batch of a flush failed and the trace batch of the same flush
\* was delivered.
C7_Witness ==
    \E f \in FlushIds :
        /\ flushes[f].err.outcome = "failed"
        /\ flushes[f].trc.outcome = "ok"
        /\ flushes[f].trc.batch # <<>>
        /\ PromiseAll(f)

\* The send of the batch holding item x has settled.
Settled(x) == \E t \in Tasks : x \in Range(Task(t).batch) /\ Task(t).pc = "done"
\* Nothing has been enqueued since close() number c was called.
QuietSince(c) == nextItem = closes[c].upto
EnqueuedBefore(c) == 1..(closes[c].upto - 1)

C9_CloseState ==
    /\ closes # <<>> => (~timer /\ ~ENABLED TimerTick)
    /\ \A c \in 1..Len(closes) :
           /\ closes[c].flush \in FlushIds
           /\ \A d \in 1..Len(closes) : c # d => closes[c].flush # closes[d].flush
           /\ closes[c].resolved =>
                  /\ Finished(flushes[closes[c].flush].err)
                  /\ Finished(flushes[closes[c].flush].trc)

C9_CloseStep ==
    Len(closes') = Len(closes) + 1 => Len(flushes') = Len(flushes) + 1

\* C9: after close() has been called the timer is cleared and its callback
\* can never run again; every close() invokes one flush of its own and
\* resolves only once both tasks of that flush have run to their end, without
\* regard to flushes started earlier; a second close() does the same.
C9_CloseStopsTimerAndAwaitsItsFlush == []C9_CloseState /\ [][C9_CloseStep]_vars

\* close() has resolved while a flush started before it still waits for its
\* signature or for the transport.
C9_Witness ==
    \E c \in 1..Len(closes) :
        /\ closes[c].resolved
        /\ flushes[closes[c].flush].err.pc = "done"
        /\ \E f \in 1..(closes[c].flush - 1), w \in Endpoints :
               flushes[f][w].pc \in {"awaitSign", "awaitFetch"}

\* C10: a flush performs no transport call for an endpoint whose buffer was
\* empty when the flush was invoked; invoked with both buffers empty it
\* performs none at all.
C10_NoCallForEmptyBuffer ==
    \A f \in FlushIds :
        /\ \A w \in Endpoints :
               AtInvocation(f, w) = <<>> =>
                   (~HasDrained(flushes[f][w]) /\ flushes[f][w].pc = "skipped")
        /\ (flushes[f].errAt = <<>> /\ flushes[f].trcAt = <<>>) => PromiseAll(f)

\* A flush found the error buffer empty and the trace buffer not: only the
\* trace endpoint was called.
C10_Witness ==
    \E f \in FlushIds :
        /\ flushes[f].errAt = <<>> /\ flushes[f].trcAt # <<>>
        /\ flushes[f].err.pc = "skipped"
        /\ PassedToTransport(flushes[f].trc)

\* What a step that lengthens a buffer does.
C11_EnqueueStep ==
    /\ Len(buffer') > Len(buffer) =>
           /\ buffer' = Append(buffer, nextItem)
           /\ traceBuffer' = traceBuffer
           /\ IF Len(buffer') >= maxBufferSize
              THEN /\ Len(flushes') = Len(flushes) + 1
                   /\ SubSeq(flushes', 1, Len(flushes)) = flushes
                   /\ flushes'[Len(flushes')].err.pc = "awaitKey"
                   /\ flushes'[Len(flushes')].err.batch = <<>>
              ELSE flushes' = flushes
    /\ Len(traceBuffer') > Len(traceBuffer) =>
           /\ traceBuffer' = Append(traceBuffer, nextItem)
           /\ buffer' = buffer
           /\ flushes' = flushes

\* C11: capture() appends exactly one event to the tail of the error
\* buffer in one synchronous step and starts a flush, which has not run
\* beyond its first await when capture() returns, if and only if the error
\* buffer then holds at least maxBufferSize events; enqueuing a trace
\* payload only appends to the trace buffer and starts no flush, whatever
\* the trace buffer's length.
C11_CaptureFlushesAtThresholdOnly == [][C11_EnqueueStep]_vars

\* Two events were captured and one trace payload enqueued: the second
\* capture started the only flush, which still waits for the key.
C11_Witness ==
    /\ Len(buffer) = maxBufferSize
    /\ Len(traceBuffer) = 1
    /\ Len(flushes) = 1
    /\ flushes[1].errAt = buffer
    /\ flushes[1].trcAt = traceBuffer
    /\ ~keyReady

\* C12: no batch is drained, signed or passed to the transport before the
\* key derivation started in the constructor has completed: until then every
\* task of every flush is suspended or has returned for an empty buffer, and
\* everything enqueued is still in its buffer.
C12_NothingSentBeforeKey ==
    ~keyReady =>
        /\ \A t \in Tasks : Task(t).pc \in {"skipped", "awaitKey"} /\ Task(t).batch = <<>>
        /\ Pending = 1..(nextItem - 1)

\* A flush that was called before the derivation completed has passed its
\* batch to the transport.
C12_Witness ==
    \E t \in Tasks :
        /\ flushes[t[1]].early
        /\ PassedToTransport(Task(t))
        /\ Task(t).batch # <<>>
        /\ keyReady

\* C23: under any interleaving of flush triggers and enqueues, no batch
\* passed to the transport is empty, for the error endpoint and for the
\* trace endpoint.
C23_NoEmptyBatch ==
    \A t \in Tasks : PassedToTransport(Task(t)) => Task(t).batch # <<>>

\* The items on the side of endpoint w: pending in its buffer, or in the
\* batch of one of its tasks.
Batched(w) == UNION {Range(flushes[f][w].batch) : f \in FlushIds}
SideOf(w) == Range(BufOf(w)) \cup Batched(w)
C24_NothingLostState ==
    /\ SideOf(ERRORS) \cup SideOf(TRACES) = 1..(nextItem - 1)
    /\ SideOf(ERRORS) \cap SideOf(TRACES) = {}
    /\ \A t \in Tasks : Task(t).batch # <<>> => HasDrained(Task(t))
C24_NothingLostStep ==
    /\ \A x \in Range(buffer) :
           \/ x \in Range(buffer')
           \/ \E f \in FlushIds :
                  /\ flushes[f].err.pc = "awaitKey" /\ flushes'[f].err.pc = "awaitSign"
                  /\ x \in Range(flushes'[f].err.batch)
    /\ \A x \in Range(traceBuffer) :
           \/ x \in Range(traceBuffer')
           \/ \E f \in FlushIds :
                  /\ flushes[f].trc.pc = "awaitKey" /\ flushes'[f].trc.pc = "awaitSign"
                  /\ x \in Range(flushes'[f].trc.batch)
    /\ \A f \in FlushIds, w \in Endpoints :
           HasDrained(flushes[f][w]) => flushes'[f][w].batch = flushes[f][w].batch

\* C24: every enqueued error event and trace payload is either still in its
\* pending buffer or in a batch that a flush drained for sending; an item
\* leaves a buffer only through a flush's drain into that flush's batch, and
\* nothing is dropped or moved to the other buffer.
C24_NothingLostBeforeTransport ==
    []C24_NothingLostState /\ [][C24_NothingLostStep]_vars

\* Everything was enqueued; part of it is in a drained batch, part is still
\* pending, on both sides.
C24_Witness ==
    /\ nextItem = MaxItems + 1
    /\ Batched(ERRORS) # {} /\ Range(traceBuffer) # {}
    /\ \E f \in FlushIds : flushes[f].trc.pc = "awaitKey"

\* Items are numbered as they are enqueued: a sequence in enqueue order is
\* an increasing one.
InEnqueueOrder(s) == \A i, j \in 1..Len(s) : i < j => s[i] < s[j]
\* Buffers and batches are in enqueue order, what is pending was enqueued
\* after what was drained, and a later flush holds later items.
C31_OrderState ==
    \A w \in Endpoints :
        /\ InEnqueueOrder(BufOf(w))
        /\ \A f \in FlushIds : InEnqueueOrder(flushes[f][w].batch)
        /\ \A x \in Batched(w), y \in Range(BufOf(w)) : x < y
        /\ \A f, g \in FlushIds :
               f < g => \A x \in Range(flushes[f][w].batch),
                           y \in Range(flushes[g][w].batch) : x < y
\* An enqueue appends at the tail; a drain takes the buffer as it is, after
\* everything drained before.
C31_OrderStep ==
    \A w \in Endpoints :
        /\ Len(BufOf(w)') > Len(BufOf(w)) => BufOf(w)' = Append(BufOf(w), nextItem)
        /\ \A f \in FlushIds :
               (flushes[f][w].pc = "awaitKey" /\ flushes'[f][w].pc = "awaitSign") =>
                   /\ flushes'[f][w].batch = BufOf(w)
                   /\ \A x \in Batched(w), y \in Range(flushes'[f][w].batch) : x < y

\* C31: order is preserved per buffer: within every batch the items are in
\* the order they were enqueued, and the batches of one buffer, taken in the
\* order they were drained and followed by what is still pending, give that
\* buffer's enqueue order (a trace payload is enqueued when Trace.end is
\* called).
C31_OrderPreservedPerBuffer == []C31_OrderState /\ [][C31_OrderStep]_vars

\* Two batches of one buffer were drained, the first of two items, the
\* second of the item enqueued after them.
C31_Witness ==
    /\ Len(flushes) = 2
    /\ \E w \in Endpoints :
           /\ Len(flushes[1][w].batch) = 2
           /\ Len(flushes[2][w].batch) = 1
    /\ nextItem = MaxItems + 1

\* C32: under any sequence of capture calls and flush triggers, no batch
\* passed to the error endpoint holds more than maxBufferSize events.
C32_ErrorBatchWithinMaxBufferSize ==
    \A f \in FlushIds :
        PassedToTransport(flushes[f].err) => Len(flushes[f].err.batch) <= maxBufferSize

\* Item x is in a batch that was passed to the transport.
Sent(x) ==
    \E t \in Tasks : PassedToTransport(Task(t)) /\ x \in Range(Task(t).batch)

\* C25: with the timer running (close() not called) and a flush still to
\* come, every enqueued error event and trace payload is eventually removed
\* from its buffer and passed to the transport in some batch, whether or not
\* the error threshold is reached (checked under SpecLive).
C25_EveryItemEventuallySent ==
    \A x \in 1..MaxItems :
        (x \in Pending /\ timer /\ Len(flushes) < MaxFlushes) ~> Sent(x)

\* Only trace payloads were enqueued, so no threshold was reached, close()
\* was not called, and a payload has been passed to the transport.
C25_Witness ==
    /\ closes = <<>> /\ timer
    /\ buffer = <<>> /\ Batched(ERRORS) = {}
    /\ \A f \in FlushIds : flushes[f].errAt = <<>>
    /\ \E x \in 1..MaxItems : Sent(x)

----------------------------------------------------------------------------
(* Property reads through the proxies of wrapOpenAI and wrapAnthropic.     *)

\* The client object and the nested objects it may hold.
ObjIds == {"client", "chat", "completions", "embeddings", "messages"}
\* Property names; "extra" stands for every name the wrappers do not know.
Props == {"chat", "completions", "create", "embeddings", "messages", "extra"}

\* More JavaScript values: a primitive, a function, an object.
VPrim == [tag |-> "prim"]
VFn(p) == [tag |-> "fn", id |-> p]
VObj(o) == [tag |-> "obj", id |-> o]
\* The values a property named p may hold in the model.
ValuesAt(p) ==
    {VUndef, VPrim, VFn(p)} \cup (IF p \in ObjIds THEN {VObj(p)} ELSE {})

EmptyObj == [p \in Props |-> VUndef]
NestedObjs ==
    [o \in ObjIds |->
        CASE o = "chat" -> [EmptyObj EXCEPT !["completions"] = VObj("completions")]
          [] o = "completions" -> [EmptyObj EXCEPT !["create"] = VFn("create")]
          [] o = "embeddings" -> [EmptyObj EXCEPT !["create"] = VFn("create")]
          [] o = "messages" -> [EmptyObj EXCEPT !["create"] = VFn("create")]
          [] OTHER -> EmptyObj]
\* The clients the tests wrap: {} cast to a client type, a client with extra
\* members, the plain object holding only chat.completions.create, the plain
\* object holding only messages.create, and a client with only embeddings.
ClientShapes ==
    { EmptyObj,
      [EmptyObj EXCEPT !["chat"] = VObj("chat"), !["embeddings"] = VObj("embeddings"),
                       !["messages"] = VObj("messages"), !["extra"] = VPrim],
      [EmptyObj EXCEPT !["chat"] = VObj("chat")],
      [EmptyObj EXCEPT !["messages"] = VObj("messages")],
      [EmptyObj EXCEPT !["embeddings"] = VObj("embeddings")] }

\* Reflect.get(target, prop, receiver) on the original object, as it is now.
\* A function is an object too; the model gives it no properties.
GetProp(target, p) == IF target.tag = "obj" THEN objs[target.id][p] ELSE VUndef

\* What `new Proxy(val, handler)` accepts as its target.
IsObject(val) == val.tag \in {"obj", "fn"}

\* new Proxy(val as object, handler): a TypeError when val is no object.
NewProxy(val, handler) ==
    IF IsObject(val)
    THEN [tag |-> "proxy", handler |-> handler, target |-> val]
    ELSE [tag |-> "throw", error |-> "TypeError"]

\* A variant of the test that takes every value for a function.
AlwaysFunction(val) == TRUE

\* `typeof compVal === "function"`
IsFunction(val) == val.tag = "fn"

\* The async function a proxy returns in place of create: it calls
\* _traceOpenAICall or _traceAnthropicCall with fn bound to the target.
Instrumented(method, fn, target) ==
    [tag |-> "instrumented", method |-> method, fn |-> fn, boundThis |-> target]

\* The get trap of each proxy.  Handlers: "openai" and "anthropic" are the
\* wrappers themselves, the others the proxies they hand out for the nested
\* objects.
ProxyGet(handler, target, p) ==
    LET val == GetProp(target, p)
    IN CASE handler = "openai" ->
                IF p = "chat" THEN NewProxy(val, "chat")
                ELSE IF p = "embeddings" THEN NewProxy(val, "embeddings")
                ELSE val
         [] handler = "chat" ->
                IF p = "completions" THEN NewProxy(val, "completions") ELSE val
         [] handler = "completions" ->
                IF p = "create" /\ IsFunction(val)
                THEN Instrumented("chat.completions.create", val, target)
                ELSE val
         [] handler = "embeddings" ->
                IF p = "create" /\ IsFunction(val)
                THEN Instrumented("embeddings.create", val, target)
                ELSE val
         [] handler = "anthropic" ->
                IF p = "messages" THEN NewProxy(val, "messages") ELSE val
         [] handler = "messages" ->
                IF p = "create" /\ IsFunction(val)
                THEN Instrumented("messages.create", val, target)
                ELSE val

\* wrapOpenAI(client) and wrapAnthropic(client).
wrapOpenAI == [tag |-> "proxy", handler |-> "openai", target |-> VObj("client")]
wrapAnthropic == [tag |-> "proxy", handler |-> "anthropic", target |-> VObj("client")]

\* The proxies the application can read from: the two wrappers and the proxy
\* the last read returned, if it returned one.
Receivers ==
    {wrapOpenAI, wrapAnthropic}
        \cup (IF lastRead.tag = "read" /\ lastRead.got.tag = "proxy"
              THEN {lastRead.got} ELSE {})

\* The application reads property p of proxy r.  orig is what the same read
\* yields on the object behind the proxy.
ReadProp(r, p) ==
    /\ lastRead' = [tag |-> "read", handler |-> r.handler, target |-> r.target,
                    prop |-> p, got |-> ProxyGet(r.handler, r.target, p),
                    orig |-> GetProp(r.target, p), sets |-> lastRead.sets]
    /\ UNCHANGED objs

\* The application assigns a property of the client or of a nested object,
\* after wrapping.
SetProp(o, p, v) ==
    /\ lastRead.sets < MaxSets
    /\ objs' = [objs EXCEPT ![o][p] = v]
    /\ lastRead' = [lastRead EXCEPT !.sets = @ + 1]

WrapInit ==
    /\ \E c \in ClientShapes : objs = [NestedObjs EXCEPT !["client"] = c]
    /\ lastRead = [tag |-> "none", sets |-> 0]

InitWrap == PipeInit /\ CallIdle /\ WrapInit

NextWrap ==
    \/ \E r \in Receivers, p \in Props :
           ReadProp(r, p) /\ UNCHANGED <<pipeVars, callVars>>
    \/ \E o \in ObjIds, p \in Props : \E v \in ValuesAt(p) :
           SetProp(o, p, v) /\ UNCHANGED <<pipeVars, callVars>>

SpecWrap == InitWrap /\ [][NextWrap]_vars

----------------------------------------------------------------------------
(* Properties of the wrappers (checked under SpecWrap).                    *)

\* The names a proxy treats specially.
OnPath(handler, p) ==
    CASE handler = "openai" -> p \in {"chat", "embeddings"}
      [] handler = "chat" -> p = "completions"
      [] handler = "anthropic" -> p = "messages"
      [] OTHER -> p = "create"

C6_MissingNestedPropertyPassesThrough ==
    lastRead.tag = "read" =>
        /\ lastRead.got.tag # "throw"
        /\ lastRead.orig = VUndef => lastRead.got = VUndef

----------------------------------------------------------------------------
(* Span, Trace and the instrumented provider calls.                        *)

\* A variant of the default that leaves an absent field undefined.
KeepUndefined(x) == x

\* `x ?? null`
OrNull(x) == IF x \in {VUndef, VNull} THEN VNull ELSE x

\* `x || 0` for a token count: undefined, null and 0 give 0.
OrZero(x) == IF x.tag = "val" /\ x.v # 0 THEN x.v ELSE 0

\* `o?.f`: undefined when o is undefined or null.
Opt(o, f) == IF o.tag = "val" THEN o.v[f] ELSE VUndef

\* A field declared without an initialiser ("Set on end()").
NotYetSet == VUndef

\* new Span(opts) created by Trace.startSpan at clock value t.
NewSpan(id, opts, t) ==
    [id |-> id, parentSpanId |-> VNull, spanType |-> opts.spanType,
     name |-> IF opts.name = VUndef THEN V(opts.spanType) ELSE opts.name,
     model |-> opts.model, provider |-> opts.provider,
     startedAt |-> t, input |-> opts.input, metadata |-> opts.metadata,
     inputTokens |-> NotYetSet, outputTokens |-> NotYetSet, cost |-> NotYetSet,
     latencyMs |-> NotYetSet, timeToFirstTokenMs |-> NotYetSet, status |-> NotYetSet,
     errorMessage |-> NotYetSet, output |-> NotYetSet]

\* The options of Span.end; an absent option is undefined.
SpanEndOptions(status, inputTokens, outputTokens, cost, errorMessage, output) ==
    [status |-> status, inputTokens |-> inputTokens, outputTokens |-> outputTokens,
     cost |-> cost, errorMessage |-> errorMessage, output |-> output,
     timeToFirstTokenMs |-> VUndef]

\* A variant of the latency that takes the clock value itself.
SinceEpoch(t, startedAt) == t

\* `Date.now() - this.startedAt`
Elapsed(t, startedAt) == t - startedAt

\* A variant of end that assigns only the status and the latency and keeps
\* what an earlier end() recorded in the other fields.
SpanEndStatusOnly(span, opts, t) ==
    [span EXCEPT !.latencyMs = V(Elapsed(t, span.startedAt)),
                 !.status = opts.status]

\* Span.end(opts) at clock value t.
SpanEnd(span, opts, t) ==
    [span EXCEPT !.latencyMs = V(Elapsed(t, span.startedAt)),
                 !.status = opts.status,
                 !.inputTokens = opts.inputTokens,
                 !.outputTokens = opts.outputTokens,
                 !.cost = opts.cost,
                 !.errorMessage = opts.errorMessage,
                 !.output = opts.output,
                 !.timeToFirstTokenMs = opts.timeToFirstTokenMs]

\* Span.toJSON().
SpanToJSON(span) ==
    [id |-> span.id, parent_span_id |-> span.parentSpanId,
     span_type |-> span.spanType, name |-> span.name,
     model |-> OrNull(span.model), provider |-> OrNull(span.provider),
     input |-> OrNull(span.input), output |-> OrNull(span.output),
     metadata |-> OrNull(span.metadata), started_at |-> span.startedAt,
     input_tokens |-> OrNull(span.inputTokens),
     output_tokens |-> OrNull(span.outputTokens),
     cost |-> OrNull(span.cost), latency_ms |-> OrNull(span.latencyMs),
     time_to_first_token_ms |-> OrNull(span.timeToFirstTokenMs),
     status |-> OrNull(span.status), error_message |-> OrNull(span.errorMessage)]

\* TraceOptions with only the required name.
NameOnly(name) ==
    [name |-> name, sessionId |-> VUndef, userId |-> VUndef, input |-> VUndef,
     metadata |-> VUndef, promptName |-> VUndef, promptVersion |-> VUndef]

\* new Trace(opts, client) at clock value t; spans holds the ids of its spans.
NewTrace(id, opts, t) ==
    [id |-> id, name |-> opts.name, sessionId |-> opts.sessionId,
     userId |-> opts.userId, status |-> "running", input |-> opts.input,
     output |-> VUndef, metadata |-> opts.metadata,
     promptName |-> opts.promptName, promptVersion |-> opts.promptVersion,
     startedAt |-> t, endedAt |-> VUndef, spans |-> <<>>]

\* A variant of Trace.end that stamps the end with the trace's start time.
TraceEndAtStart(trace, status, output, t) ==
    [trace EXCEPT !.endedAt = V(trace.startedAt),
                  !.status = status,
                  !.output = IF output # VUndef THEN output ELSE trace.output]

\* The fields Trace.end(opts) assigns at clock value t.
TraceEnd(trace, status, output, t) ==
    [trace EXCEPT !.endedAt = V(t),
                  !.status = status,
                  !.output = IF output # VUndef THEN output ELSE trace.output]

\* A variant of the payload that serializes every span the client knows,
\* not only the spans of this trace.
TraceToPayloadAll(trace, allSpans) ==
    [id |-> trace.id, session_id |-> OrNull(trace.sessionId),
     user_id |-> OrNull(trace.userId), name |-> trace.name,
     status |-> trace.status, input |-> OrNull(trace.input),
     output |-> OrNull(trace.output), metadata |-> OrNull(trace.metadata),
     prompt_name |-> OrNull(trace.promptName),
     prompt_version |-> OrNull(trace.promptVersion),
     started_at |-> trace.startedAt, ended_at |-> OrNull(trace.endedAt),
     spans |-> [i \in 1..Len(allSpans) |-> SpanToJSON(allSpans[i])]]

\* Trace._toPayload(), over the spans as they are in allSpans.
TraceToPayload(trace, allSpans) ==
    [id |-> trace.id, session_id |-> OrNull(trace.sessionId),
     user_id |-> OrNull(trace.userId), name |-> trace.name,
     status |-> trace.status, input |-> OrNull(trace.input),
     output |-> OrNull(trace.output), metadata |-> OrNull(trace.metadata),
     prompt_name |-> OrNull(trace.promptName),
     prompt_version |-> OrNull(trace.promptVersion),
     started_at |-> trace.startedAt, ended_at |-> OrNull(trace.endedAt),
     spans |-> [i \in 1..Len(trace.spans) |-> SpanToJSON(allSpans[trace.spans[i]])]]

\* Rates are per token, in units of 1e-8 dollars (2.50 / 1_000_000 is 250).
MODEL_COSTS ==
    [m \in {"gpt-4o", "gpt-4o-mini"} |->
        IF m = "gpt-4o" THEN [input |-> 250, output |-> 1000]
        ELSE [input |-> 15, output |-> 60]]

\* The model names setModelCosts is called with; "my-model" is in no
\* built-in table, "__proto__" is the accessor every plain object inherits.
ModelNames == {"gpt-4o", "my-model", "__proto__"}

\* More JavaScript values: a rates object {input, output}, and NaN.
VRates(r) == [tag |-> "rates", v |-> r]
VNaN == [tag |-> "NaN"]

\* `table[key]` on a plain object used as a table of rates: an own
\* property; the prototype installed by an assignment to "__proto__" (kept
\* in the model under that key) and what is inherited from it; or what
\* Object.prototype provides ("constructor" is the function Object).
Lookup(table, key) ==
    IF key \in DOMAIN table THEN VRates(table[key])
    ELSE IF "__proto__" \in DOMAIN table /\ key \in DOMAIN table["__proto__"]
    THEN V(table["__proto__"][key])
    ELSE IF key = "__proto__" THEN VObj("Object.prototype")
    ELSE IF key = "constructor" THEN VFn("Object")
    ELSE VUndef

\* `a || b` takes a unless a is falsy.
\* The values looked up here are objects, functions, numbers or undefined.
Truthy(x) ==
    CASE x.tag \in {"undefined", "null", "NaN"} -> FALSE
      [] x.tag = "val" -> x.v # 0
      [] OTHER -> TRUE

\* `this._modelCosts[model] || MODEL_COSTS[model]`, with table for
\* this._modelCosts.
RatesIn(table, model) ==
    IF Truthy(Lookup(table, model))
    THEN Lookup(table, model)
    ELSE Lookup(MODEL_COSTS, model)

\* `let cost = 0; if (rates) cost = inputTokens * rates.input + outputTokens
\* * rates.output`: a number times undefined is NaN.
CostOf(model, inputTokens, outputTokens) ==
    LET rates == RatesIn(modelCosts, model)
    IN IF ~Truthy(rates) THEN V(0)
       ELSE IF rates.tag = "rates"
       THEN V(inputTokens * rates.v.input + outputTokens * rates.v.output)
       ELSE VNaN

\* The intercepted methods and the wrapper that intercepts each.
Methods == {"chat.completions.create", "embeddings.create", "messages.create"}
IsAnthropic(method) == method = "messages.create"

\* args[0] of a call: absent, or an object with an optional model and an
\* optional messages list.  A model may have any name: "constructor" and
\* "input" are names like any other to the provider.
Requests ==
    { VUndef,
      V([model |-> V("gpt-4o"), messages |-> V(<<"m1", "m2">>)]),
      V([model |-> V("my-model"), messages |-> VUndef]),
      V([model |-> V("constructor"), messages |-> VUndef]),
      V([model |-> V("input"), messages |-> VUndef]),
      V([model |-> VUndef, messages |-> V(<<"m1">>)]) }

NoUsage == [prompt_tokens |-> VUndef, completion_tokens |-> VUndef,
            input_tokens |-> VUndef, output_tokens |-> VUndef]
\* What the original function may resolve with: undefined; an OpenAI chat
\* response; a response without usage whose content is null; an embeddings
\* response (prompt tokens only); an Anthropic response.  choiceContent is
\* choices[0].message.content and contentText is content[0].text, undefined
\* when a link of the chain is.
Responses ==
    { VUndef,
      V([usage |-> V([NoUsage EXCEPT !.prompt_tokens = V(100), !.completion_tokens = V(50)]),
         choiceContent |-> V("hi"), contentText |-> VUndef]),
      V([usage |-> VUndef, choiceContent |-> VNull, contentText |-> VNull]),
      V([usage |-> V([NoUsage EXCEPT !.prompt_tokens = V(8)]),
         choiceContent |-> VUndef, contentText |-> VUndef]),
      V([usage |-> V([NoUsage EXCEPT !.input_tokens = V(100), !.output_tokens = V(50)]),
         choiceContent |-> VUndef, contentText |-> V("hello")]) }

\* What the original function may throw or reject with: an Error with a
\* message, an Error with an empty message, a string, undefined.
ErrorObj(message) == [tag |-> "error", message |-> message]
Thrown == {ErrorObj("boom"), ErrorObj(""), V("oops"), VUndef}

\* String(err): "Error: <message>" for an Error, "Error" when its message
\* is empty, the string itself, "undefined".
StringOf(err) ==
    CASE err.tag = "error" -> IF err.message = "" THEN "Error" ELSE <<"Error: ", err.message>>
      [] err.tag = "val" -> err.v
      [] OTHER -> err.tag

\* `err?.message || String(err)`
MessageOrString(err) ==
    IF err.tag = "error" /\ err.message # "" THEN err.message ELSE StringOf(err)

\* `params.model || "unknown"` with `params = args[0] || {}`.
ModelOf(request) ==
    IF Opt(request, "model").tag = "val" THEN Opt(request, "model").v ELSE "unknown"

\* `params.messages ? JSON.stringify(params.messages.slice(-1)) : undefined`
LastMessageJSON(request) ==
    LET msgs == Opt(request, "messages")
    IN IF msgs.tag = "val"
       THEN V([json |-> SubSeq(msgs.v, Len(msgs.v), Len(msgs.v))])
       ELSE VUndef

\* The options of startSpan in _traceOpenAICall and _traceAnthropicCall; the
\* Anthropic path passes no input.
CallSpanOptions(method, provider, request) ==
    [spanType |-> "generation",
     name |-> IF IsAnthropic(method) THEN V("anthropic.messages.create")
              ELSE V(<<provider, ".", method>>),
     model |-> V(ModelOf(request)),
     provider |-> IF IsAnthropic(method) THEN V("anthropic") ELSE V(provider),
     input |-> IF IsAnthropic(method) THEN VUndef ELSE LastMessageJSON(request),
     metadata |-> VUndef]

\* What detectProvider found when the client was wrapped: the client of the
\* model has the base URL of api.openai.com.
Providers == {"openai"}

\* The object that holds an intercepted method: client.chat.completions,
\* client.embeddings, client.messages.
OwnerOf(method) ==
    CASE method = "chat.completions.create" -> "chat.completions"
      [] method = "embeddings.create" -> "embeddings"
      [] OTHER -> "messages"

\* `compVal.bind(compTarget)`: the target of the innermost Proxy is the
\* client's own nested object.
BoundThis(method) == [tag |-> "target", of |-> OwnerOf(method)]

\* A variant of the call that does not await the original function: the
\* trace is ended and pushed while the provider call is in flight.
CallStartNoAwait(method, provider, request) ==
    /\ Len(calls) < MaxCalls
    /\ LET tid == Len(traces) + 1
           sid == Len(spans) + 1
           opts == CallSpanOptions(method, provider, request)
           started == Append(spans, NewSpan(sid, opts, now))
           trace == TraceEnd([NewTrace(tid, NameOnly(opts.name), now) EXCEPT !.spans = <<sid>>],
                             "completed", VUndef, now)
       IN /\ traces' = Append(traces, trace)
          /\ spans' = started
          /\ traceBuffer' = pushTrace(TraceToPayload(trace, started))
          /\ calls' = Append(calls, [method |-> method, request |-> request,
                                     trace |-> tid, span |-> sid, invoked |-> 1,
                                     boundThis |-> BoundThis(method),
                                     rateAtCall |-> RatesIn(modelCosts, ModelOf(request)),
                                     pc |-> "inflight", settled |-> VUndef,
                                     result |-> VUndef])
    /\ UNCHANGED <<now, modelCosts>>

\* The wrapper's create is called: a Trace and a generation Span are
\* created and the original function is invoked, up to `await fn(...args)`.
\* The call's record keeps what the original function was invoked with
\* (request, boundThis) and, for reference, the rate that was in effect for
\* the request's model at the invocation (rateAtCall; the code keeps no such
\* copy).
CallStart(method, provider, request) ==
    /\ Len(calls) < MaxCalls
    /\ LET tid == Len(traces) + 1
           sid == Len(spans) + 1
           opts == CallSpanOptions(method, provider, request)
       IN /\ traces' = Append(traces, [NewTrace(tid, NameOnly(opts.name), now) EXCEPT !.spans = <<sid>>])
          /\ spans' = Append(spans, NewSpan(sid, opts, now))
          /\ calls' = Append(calls, [method |-> method, request |-> request,
                                     trace |-> tid, span |-> sid, invoked |-> 1,
                                     boundThis |-> BoundThis(method),
                                     rateAtCall |-> RatesIn(modelCosts, ModelOf(request)),
                                     pc |-> "inflight", settled |-> VUndef,
                                     result |-> VUndef])
    /\ UNCHANGED <<now, modelCosts, traceBuffer>>

\* The counts a response carries for a method's wrapper.
UsageIn(method, response) ==
    Opt(Opt(response, "usage"), IF IsAnthropic(method) THEN "input_tokens" ELSE "prompt_tokens")
UsageOut(method, response) ==
    Opt(Opt(response, "usage"), IF IsAnthropic(method) THEN "output_tokens" ELSE "completion_tokens")
\* The output string: the first choice's message content, or the first
\* content block's text.
OutputOf(method, response) ==
    Opt(response, IF IsAnthropic(method) THEN "contentText" ELSE "choiceContent")

\* A variant of the return that hands back a copy without the usage.
Stripped(response) ==
    IF response.tag = "val" THEN V([response.v EXCEPT !.usage = VUndef]) ELSE response

\* `return response;`
Returned(response) == response

\* A variant of the catch that throws an error of its own.
Wrapped(err) == ErrorObj("instrumentation failed")

\* `throw err;`
Rethrown(err) == err

\* The original function resolved with response: usage, cost and output are
\* extracted, the span is ended "ok", the trace is ended "completed" and
\* pushed, and the response is returned.
CallResolve(c, response) ==
    /\ calls[c].pc = "inflight"
    /\ LET call == calls[c]
           inputTokens == OrZero(UsageIn(call.method, response))
           outputTokens == OrZero(UsageOut(call.method, response))
           cost == CostOf(ModelOf(call.request), inputTokens, outputTokens)
           output == OutputOf(call.method, response)
           ended == [spans EXCEPT ![call.span] =
                        SpanEnd(@, SpanEndOptions(V("ok"), V(inputTokens), V(outputTokens),
                                                  cost, VUndef, output), now)]
           trace == TraceEnd(traces[call.trace], "completed", output, now)
       IN /\ spans' = ended
          /\ traces' = [traces EXCEPT ![call.trace] = trace]
          /\ traceBuffer' = pushTrace(TraceToPayload(trace, ended))
          /\ calls' = [calls EXCEPT ![c].pc = "resolved",
                                    ![c].settled = response,
                                    ![c].result = Returned(response)]
    /\ UNCHANGED <<now, modelCosts>>

\* The original function threw or rejected with err: the span is ended
\* "error" with a message, the trace is ended "error" and pushed, and err is
\* thrown again.
CallReject(c, err) ==
    /\ calls[c].pc = "inflight"
    /\ LET call == calls[c]
           ended == [spans EXCEPT ![call.span] =
                        SpanEnd(@, SpanEndOptions(V("error"), VUndef, VUndef, VUndef,
                                                  V(MessageOrString(err)), VUndef), now)]
           trace == TraceEnd(traces[call.trace], "error", VUndef, now)
       IN /\ spans' = ended
          /\ traces' = [traces EXCEPT ![call.trace] = trace]
          /\ traceBuffer' = pushTrace(TraceToPayload(trace, ended))
          /\ calls' = [calls EXCEPT ![c].pc = "rejected",
                                    ![c].settled = err,
                                    ![c].result = Rethrown(err)]
    /\ UNCHANGED <<now, modelCosts>>

\* The rates an application may set.
CustomRates == {[input |-> 300, output |-> 1000]}

\* setModelCosts(model, costs): `this._modelCosts[model] = costs`.
\* modelCosts is a function from the model names set so far to their rates.
setModelCosts(model, costs) ==
    /\ Cardinality(DOMAIN modelCosts) < MaxCostSets
    /\ modelCosts' = [m \in DOMAIN modelCosts \cup {model} |->
                         IF m = model THEN costs ELSE modelCosts[m]]
    /\ UNCHANGED <<now, traces, spans, calls, traceBuffer>>

\* Time passes.
Tick ==
    /\ now < MaxClock
    /\ now' = now + 1
    /\ UNCHANGED <<traces, spans, calls, modelCosts, traceBuffer>>

callFrame == <<buffer, timer, keyReady, flushes, closes, nextItem, objs, lastRead>>

InitCall == PipeInit /\ CallIdle /\ WrapIdle

NextCall ==
    \/ \E m \in Methods, pr \in Providers, rq \in Requests :
           CallStart(m, pr, rq) /\ UNCHANGED callFrame
    \/ \E c \in 1..Len(calls), r \in Responses :
           CallResolve(c, r) /\ UNCHANGED callFrame
    \/ \E c \in 1..Len(calls), e \in Thrown :
           CallReject(c, e) /\ UNCHANGED callFrame
    \/ \E m \in ModelNames, r \in CustomRates :
           setModelCosts(m, r) /\ UNCHANGED callFrame
    \/ Tick /\ UNCHANGED callFrame

SpecCall == InitCall /\ [][NextCall]_vars

----------------------------------------------------------------------------
(* Properties of the instrumented calls (checked under SpecCall).          *)

CallIds == 1..Len(calls)
SpanOfCall(c) == spans[calls[c].span]
TraceOfCall(c) == traces[calls[c].trace]
\* The payloads in the trace buffer that carry the id of call c's trace.
PayloadsOfCall(c) ==
    {i \in 1..Len(traceBuffer) : traceBuffer[i].id = calls[c].trace}
\* A count as the usage gives it, 0 when it gives none.
Count(x) == IF x.tag = "val" THEN x.v ELSE 0

\* C3 as stated: when the original function throws or rejects with e, the
\* span is ended with status "error" and errorMessage equal to e's message,
\* the trace is ended with status "error", and the wrapper call rejects with
\* e itself.
C3_FailureRecordedWithMessageOfError ==
    \A c \in CallIds :
        calls[c].pc = "rejected" =>
            LET e == calls[c].settled
            IN /\ SpanOfCall(c).status = V("error")
               /\ e.tag = "error" => SpanOfCall(c).errorMessage = V(e.message)
               /\ TraceOfCall(c).status = "error"
               /\ calls[c].result = e

\* C3 as amended: errorMessage is e's message when e has a non-empty
\* message, and otherwise the string form of e ("Error" for an Error whose
\* message is empty, a thrown string itself, "undefined" for undefined); the
\* rest as stated, and the payload enqueued carries the same statuses.
C3_FailureRecordedAndRethrown ==
    \A c \in CallIds :
        calls[c].pc = "rejected" =>
            LET e == calls[c].settled
                expected == CASE e.tag = "error" /\ e.message # "" -> e.message
                              [] e.tag = "error" -> "Error"
                              [] e.tag = "val" -> e.v
                              [] OTHER -> "undefined"
            IN /\ SpanOfCall(c).status = V("error")
               /\ SpanOfCall(c).errorMessage = V(expected)
               /\ TraceOfCall(c).status = "error"
               /\ calls[c].result = e
               /\ \A i \in PayloadsOfCall(c) :
                      /\ traceBuffer[i].status = "error"
                      /\ traceBuffer[i].spans[1].status = V("error")
                      /\ traceBuffer[i].spans[1].error_message = V(expected)
               /\ PayloadsOfCall(c) # {}

\* A call was rejected with an Error whose message is empty while another
\* call was still in flight.
C3_Witness ==
    \E c, d \in CallIds :
        /\ calls[c].pc = "rejected"
        /\ calls[c].settled = ErrorObj("")
        /\ SpanOfCall(c).errorMessage = V("Error")
        /\ calls[d].pc = "inflight"

\* C4 as stated: when the original function resolves with r, the span is
\* ended "ok" with the token counts of r's usage (0 for a missing count,
\* always 0 output tokens for embeddings), the trace is ended "completed"
\* with the same output as the span, and the wrapper call resolves with r.
C4_SuccessRecordedEmbeddingsNoOutput ==
    \A c \in CallIds :
        calls[c].pc = "resolved" =>
            LET r == calls[c].settled
                m == calls[c].method
            IN /\ SpanOfCall(c).status = V("ok")
               /\ SpanOfCall(c).inputTokens = V(Count(UsageIn(m, r)))
               /\ SpanOfCall(c).outputTokens =
                      V(IF m = "embeddings.create" THEN 0 ELSE Count(UsageOut(m, r)))
               /\ TraceOfCall(c).status = "completed"
               /\ TraceOfCall(c).output = SpanOfCall(c).output
               /\ calls[c].result = r

\* C4 as amended: the output token count is read from r's usage for every
\* intercepted method, embeddings.create included (usage.completion_tokens,
\* 0 when the response carries none); the rest as stated.
C4_SuccessRecordedFromUsage ==
    \A c \in CallIds :
        calls[c].pc = "resolved" =>
            LET r == calls[c].settled
                m == calls[c].method
            IN /\ SpanOfCall(c).status = V("ok")
               /\ SpanOfCall(c).inputTokens = V(Count(UsageIn(m, r)))
               /\ SpanOfCall(c).outputTokens = V(Count(UsageOut(m, r)))
               /\ SpanOfCall(c).output = OutputOf(m, r)
               /\ TraceOfCall(c).status = "completed"
               /\ TraceOfCall(c).output = SpanOfCall(c).output
               /\ calls[c].result = r
               /\ \A i \in PayloadsOfCall(c) :
                      /\ traceBuffer[i].status = "completed"
                      /\ traceBuffer[i].spans[1].status = V("ok")
               /\ PayloadsOfCall(c) # {}

\* An embeddings call resolved with a response whose usage holds prompt
\* tokens only: 8 input tokens and 0 output tokens are recorded.
C4_Witness ==
    \E c \in CallIds :
        /\ calls[c].pc = "resolved"
        /\ calls[c].method = "embeddings.create"
        /\ SpanOfCall(c).inputTokens = V(8)
        /\ SpanOfCall(c).outputTokens = V(0)
        /\ calls[c].result = calls[c].settled

----------------------------------------------------------------------------
(* Traces and spans driven by the application: startTrace, startSpan,      *)
(* Span.end and Trace.end in any order.                                    *)

\* Traces started in one run.
MaxTraces == 1
\* Spans started in one run.
MaxSpans == 2
\* Payloads enqueued by Trace.end in one run.
MaxPayloads == 2

\* TraceOptions: only the name, or every optional field supplied.
TraceOptionsSet ==
    { NameOnly("minimal-trace"),
      [name |-> "chat-completion", sessionId |-> V("sess-123"),
       userId |-> V("user-456"), input |-> V("Hello, world!"),
       metadata |-> V("meta"), promptName |-> V("my-prompt"),
       promptVersion |-> V("1.0")] }

\* SpanOptions: only the span type, or every optional field supplied.
SpanOptionsSet ==
    { [spanType |-> "tool", name |-> VUndef, model |-> VUndef,
       provider |-> VUndef, input |-> VUndef, metadata |-> VUndef],
      [spanType |-> "generation", name |-> V("gpt-4o call"), model |-> V("gpt-4o"),
       provider |-> V("openai"), input |-> V("prompt text"), metadata |-> V("meta")] }

\* SpanEndOptions: a full record of an "ok" completion, and an "error" with
\* only the message.
SpanEndOptionsSet ==
    { [status |-> V("ok"), inputTokens |-> V(10), outputTokens |-> V(5),
       cost |-> V(25), errorMessage |-> VUndef, output |-> V("response"),
       timeToFirstTokenMs |-> V(1)],
      [status |-> V("error"), inputTokens |-> VUndef, outputTokens |-> VUndef,
       cost |-> VUndef, errorMessage |-> V("rate limited"), output |-> VUndef,
       timeToFirstTokenMs |-> VUndef] }

\* TraceEndOptions: status is any TraceStatus, output is optional.
TraceStatuses == {"running", "completed", "error"}
TraceEndOptionsSet ==
    [status : TraceStatuses, output : {VUndef}]
        \cup {[status |-> "completed", output |-> V("response")]}

\* client.startTrace(opts)
startTrace(opts) ==
    /\ Len(traces) < MaxTraces
    /\ traces' = Append(traces, NewTrace(Len(traces) + 1, opts, now))
    /\ UNCHANGED <<spans, traceBuffer, now>>

\* trace.startSpan(opts): a new Span is pushed to the trace's spans.
startSpan(tr, opts) ==
    /\ Len(spans) < MaxSpans
    /\ spans' = Append(spans, NewSpan(Len(spans) + 1, opts, now))
    /\ traces' = [traces EXCEPT ![tr].spans = Append(@, Len(spans) + 1)]
    /\ UNCHANGED <<traceBuffer, now>>

\* span.end(opts)
EndSpan(sp, opts) ==
    /\ spans' = [spans EXCEPT ![sp] = SpanEnd(@, opts, now)]
    /\ UNCHANGED <<traces, traceBuffer, now>>

\* trace.end(opts): the fields are set and the payload is pushed.
EndTrace(tr, opts) ==
    /\ Len(traceBuffer) < MaxPayloads
    /\ LET ended == TraceEnd(traces[tr], opts.status, opts.output, now)
       IN /\ traces' = [traces EXCEPT ![tr] = ended]
          /\ traceBuffer' = pushTrace(TraceToPayload(ended, spans))
    /\ UNCHANGED <<spans, now>>

\* Time passes.
ClockTick ==
    /\ now < MaxClock
    /\ now' = now + 1
    /\ UNCHANGED <<traces, spans, traceBuffer>>

traceFrame ==
    <<buffer, timer, keyReady, flushes, closes, nextItem, calls, modelCosts,
      objs, lastRead>>

InitTrace == PipeInit /\ CallIdle /\ WrapIdle

NextTrace ==
    \/ \E o \in TraceOptionsSet : startTrace(o) /\ UNCHANGED traceFrame
    \/ \E tr \in 1..Len(traces), o \in SpanOptionsSet :
           startSpan(tr, o) /\ UNCHANGED traceFrame
    \/ \E sp \in 1..Len(spans), o \in SpanEndOptionsSet :
           EndSpan(sp, o) /\ UNCHANGED traceFrame
    \/ \E tr \in 1..Len(traces), o \in TraceEndOptionsSet :
           EndTrace(tr, o) /\ UNCHANGED traceFrame
    \/ ClockTick /\ UNCHANGED traceFrame

SpecTrace == InitTrace /\ [][NextTrace]_vars

----------------------------------------------------------------------------
(* Properties of traces and spans (checked under SpecTrace).               *)

TraceIds == 1..Len(traces)
SpanIds == 1..Len(spans)
PayloadIds == 1..Len(traceBuffer)
\* Trace.end has been called on the trace.
TraceEnded(tr) == traces[tr].endedAt # VUndef

\* C13 as stated: a trace's status is "running" from creation until end() is
\* called, after any call of Trace.end it is "completed" or "error", and
\* every payload in the delivery buffer carries "completed" or "error".
C13_EndedTraceIsCompletedOrError ==
    /\ \A tr \in TraceIds :
           IF TraceEnded(tr)
           THEN traces[tr].status \in {"completed", "error"}
           ELSE traces[tr].status = "running"
    /\ \A i \in PayloadIds : traceBuffer[i].status \in {"completed", "error"}

\* The completion fields of a span, in the order of their declaration.
CompletionFields(span) ==
    <<span.inputTokens, span.outputTokens, span.cost, span.latencyMs,
      span.timeToFirstTokenMs, span.status, span.errorMessage, span.output>>
\* end() has been called on the span: status is required by SpanEndOptions.
SpanEnded(sp) == spans[sp].status # VUndef
C14_UndefinedUntilEnd ==
    \A sp \in SpanIds :
        ~SpanEnded(sp) => \A i \in 1..8 : CompletionFields(spans[sp])[i] = VUndef
C14_NoChangeAfterEnd ==
    \A sp \in SpanIds :
        SpanEnded(sp) => CompletionFields(spans'[sp]) = CompletionFields(spans[sp])
C14_ChangeOnlyByEnd ==
    \A sp \in SpanIds :
        CompletionFields(spans'[sp]) # CompletionFields(spans[sp]) =>
            /\ \E o \in SpanEndOptionsSet :
                   CompletionFields(spans'[sp]) =
                       <<o.inputTokens, o.outputTokens, o.cost,
                         V(now - spans[sp].startedAt), o.timeToFirstTokenMs,
                         o.status, o.errorMessage, o.output>>
            /\ \A other \in SpanIds \ {sp} : spans'[other] = spans[other]
            /\ traces' = traces
            /\ traceBuffer' = traceBuffer

\* C14 as stated: a span's completion fields are all undefined from creation
\* until the first end(), and once set they never change again under any
\* later operation on the span or its trace, another end() included.
C14_CompletionFieldsFixedAfterEnd ==
    []C14_UndefinedUntilEnd /\ [][C14_NoChangeAfterEnd]_vars

\* C14 as amended: the completion fields are all undefined until the first
\* end(); afterwards no operation changes them except a further end() on
\* that span, which overwrites all of them with its own options and latency.
C14_CompletionFieldsChangeOnlyByEnd ==
    []C14_UndefinedUntilEnd /\ [][C14_ChangeOnlyByEnd]_vars

\* A span was ended "ok", its trace was ended, and the span was ended again
\* with "error": the payload holds the first completion, the span the second.
C14_Witness ==
    /\ Len(spans) >= 1 /\ Len(traceBuffer) >= 1
    /\ Len(traceBuffer[1].spans) >= 1
    /\ traceBuffer[1].spans[1].status = V("ok")
    /\ spans[1].status = V("error")
    /\ spans[1].inputTokens = VUndef

\* No step changes a payload that is in the buffer.
C18_PayloadStep ==
    \A i \in PayloadIds :
        /\ Len(traceBuffer') >= i
        /\ traceBuffer'[i] = traceBuffer[i]

\* C18: the payload Trace.end hands to the delivery buffer is a snapshot: no
\* later operation on the trace or its spans (Span.end on a span that was
\* open, startSpan, a further Trace.end) changes a payload already enqueued.
C18_EnqueuedPayloadIsSnapshot == [][C18_PayloadStep]_vars

\* A trace was ended with one open span; afterwards the span was ended,
\* another span was started and the trace was ended again with another
\* status: the first payload still shows one open span and the first status.
C18_Witness ==
    /\ Len(traceBuffer) = 2
    /\ traceBuffer[1].id = traceBuffer[2].id
    /\ Len(traceBuffer[1].spans) = 1 /\ Len(traceBuffer[2].spans) = 2
    /\ traceBuffer[1].spans[1].status = VNull
    /\ traceBuffer[2].spans[1].status = V("ok")
    /\ traceBuffer[1].status = "completed" /\ traceBuffer[2].status = "error"
    /\ traceBuffer[1].ended_at = V(0) /\ traceBuffer[2].ended_at = V(1)

\* The optional fields of the two wire shapes, and all their fields.
TraceWireOptional ==
    {"session_id", "user_id", "input", "output", "metadata", "prompt_name",
     "prompt_version", "ended_at"}
TraceWireFields ==
    TraceWireOptional \cup {"id", "name", "status", "started_at", "spans"}
SpanWireCompletion ==
    {"output", "input_tokens", "output_tokens", "cost", "latency_ms",
     "time_to_first_token_ms", "status", "error_message"}
SpanWireOptional ==
    SpanWireCompletion \cup {"parent_span_id", "model", "provider", "input", "metadata"}
SpanWireFields ==
    SpanWireOptional \cup {"id", "span_type", "name", "started_at"}

\* C19: in every serialized trace payload and span every field of the wire
\* shape is present, and an optional field that was never supplied is null,
\* never undefined; a span that was open when its trace was ended has all
\* its completion fields null.
C19_AbsentFieldsAreNull ==
    \A i \in PayloadIds :
        LET p == traceBuffer[i]
        IN /\ DOMAIN p = TraceWireFields
           /\ \A f \in TraceWireOptional : p[f] # VUndef
           /\ \A k \in 1..Len(p.spans) :
                  /\ DOMAIN p.spans[k] = SpanWireFields
                  /\ \A f \in SpanWireOptional : p.spans[k][f] # VUndef
                  /\ p.spans[k].status = VNull =>
                         \A f \in SpanWireCompletion : p.spans[k][f] = VNull

\* A trace started with only a name was ended while its span, started with
\* only a type, was still open.
C19_Witness ==
    \E i \in PayloadIds :
        /\ traceBuffer[i].name = "minimal-trace"
        /\ traceBuffer[i].session_id = VNull
        /\ traceBuffer[i].output = VNull
        /\ Len(traceBuffer[i].spans) = 1
        /\ traceBuffer[i].spans[1].status = VNull
        /\ traceBuffer[i].spans[1].model = VNull
        /\ traceBuffer[i].spans[1].latency_ms = VNull

C20_LatencyState ==
    \A sp \in SpanIds :
        SpanEnded(sp) =>
            /\ spans[sp].latencyMs.tag = "val"
            /\ spans[sp].latencyMs.v >= 0
            /\ spans[sp].latencyMs.v <= now - spans[sp].startedAt
C20_LatencyStep ==
    /\ \A sp \in SpanIds :
           /\ spans'[sp].startedAt = spans[sp].startedAt
           /\ spans'[sp] # spans[sp] =>
                  spans'[sp].latencyMs = V(now - spans[sp].startedAt)
    /\ Len(spans') > Len(spans) => spans'[Len(spans')].startedAt = now

\* C20: startedAt is the clock value at the span's creation and never
\* changes; for every ended span latencyMs is the clock value at the end()
\* call minus startedAt, and it is not negative.
C20_LatencyIsEndMinusStart == []C20_LatencyState /\ [][C20_LatencyStep]_vars

\* One span was started at 0 and ended at 1, another started and ended at 1.
C20_Witness ==
    /\ Len(spans) = 2
    /\ spans[1].startedAt = 0 /\ spans[1].latencyMs = V(1)
    /\ spans[2].startedAt = 1 /\ spans[2].latencyMs = V(0)

----------------------------------------------------------------------------
(* Cost and payloads of the instrumented calls (checked under SpecCall).   *)

\* Call c resolves in this step.
Resolves(c) == calls[c].pc = "inflight" /\ calls'[c].pc = "resolved"
\* The model name the span of call c carries.
ModelOfCall(c) == SpanOfCall(c).model.v
\* i * rate.input + o * rate.output
Priced(rate, i, o) == i * rate.input + o * rate.output

\* The cost a step that resolves a call records.
C15_CostStep ==
    \A c \in CallIds :
        Resolves(c) =>
            LET m == ModelOfCall(c)
                sp == spans'[calls[c].span]
                i == sp.inputTokens.v
                o == sp.outputTokens.v
            IN /\ sp.cost =
                      V(IF m \in DOMAIN modelCosts THEN Priced(modelCosts[m], i, o)
                        ELSE IF m \in DOMAIN MODEL_COSTS THEN Priced(MODEL_COSTS[m], i, o)
                        ELSE 0)
               /\ (m = "gpt-4o" /\ m \notin DOMAIN modelCosts /\ i = 100 /\ o = 50)
                      => sp.cost = V(75000)

\* C15: for every successful instrumented call with model m, inputTokens i
\* and outputTokens o, the span's cost is i*rate.input + o*rate.output where
\* rate is the instance override for m if one exists, else the built-in
\* entry for m, and 0 if m is in neither table; gpt-4o with 100 and 50
\* tokens at the built-in rates costs 100*250 + 50*1000 (in 1e-8 dollars).
C15_CostIsTokensTimesRates == [][C15_CostStep]_vars

\* Every model name of the model: those of the requests, those given to
\* setModelCosts, and "unknown" for a request without a model.
AllModelNames == ModelNames \cup {"constructor", "input", "unknown"}

\* What a setModelCosts step changes, and the cost of a call with an override.
C16_OverrideStep ==
    /\ modelCosts' # modelCosts =>
           \E m \in ModelNames :
               /\ RatesIn(modelCosts', m) \in {VRates(c) : c \in CustomRates}
               /\ \A other \in AllModelNames \ {m} :
                      RatesIn(modelCosts', other) = RatesIn(modelCosts, other)
    /\ \A c \in CallIds :
           (Resolves(c) /\ ModelOfCall(c) \in DOMAIN modelCosts) =>
               LET sp == spans'[calls[c].span]
               IN sp.cost = V(Priced(modelCosts[ModelOfCall(c)],
                                     sp.inputTokens.v, sp.outputTokens.v))

\* C16: after setModelCosts(m, c) every later instrumented call with model m
\* is costed with c rather than with the built-in entry; the call changes
\* the rate of no other model.
C16_OverrideTakesPrecedenceOnly == [][C16_OverrideStep]_vars

\* C17: every call of an intercepted method that has settled, successfully
\* or not, has put exactly one payload into the trace buffer, holding
\* exactly one span, the call's own ended root "generation" span; a call in
\* flight has put none; the calls themselves start no flush; concurrent
\* calls have their own traces and spans.
C17_OnePayloadWithOneSpanPerCall ==
    /\ \A c \in CallIds :
           IF calls[c].pc = "inflight"
           THEN PayloadsOfCall(c) = {}
           ELSE /\ Cardinality(PayloadsOfCall(c)) = 1
                /\ \A i \in PayloadsOfCall(c) :
                       /\ Len(traceBuffer[i].spans) = 1
                       /\ traceBuffer[i].spans[1].id = calls[c].span
                       /\ traceBuffer[i].spans[1].span_type = "generation"
                       /\ traceBuffer[i].spans[1].parent_span_id = VNull
                       /\ traceBuffer[i].spans[1].status \in {V("ok"), V("error")}
                       /\ traceBuffer[i].spans[1].latency_ms # VNull
                       /\ traceBuffer[i].ended_at # VNull
    /\ Len(traceBuffer) = Cardinality({c \in CallIds : calls[c].pc # "inflight"})
    /\ \A c, d \in CallIds :
           c # d => calls[c].trace # calls[d].trace /\ calls[c].span # calls[d].span
    /\ flushes = <<>>

\* Two calls were in flight together; the second failed first, then the
\* first succeeded: the buffer holds the failed call's payload before the
\* successful call's.
C17_Witness ==
    /\ Len(calls) = 2 /\ Len(traceBuffer) = 2
    /\ calls[1].pc = "resolved" /\ calls[2].pc = "rejected"
    /\ traceBuffer[1].id = calls[2].trace /\ traceBuffer[1].status = "error"
    /\ traceBuffer[2].id = calls[1].trace /\ traceBuffer[2].status = "completed"

----------------------------------------------------------------------------
(* Repeated Trace.end and Span.end (checked under SpecTrace).              *)

\* No step changes the end timestamp of a trace that has one.
C26_EndedAtFixedStep ==
    \A tr \in TraceIds :
        TraceEnded(tr) => traces'[tr].endedAt = traces[tr].endedAt

\* C26 as stated: after the first call of Trace.end the trace's endedAt
\* never changes, whatever is called on the trace afterwards, a further
\* Trace.end included.
C26_EndedAtSetOnce == [][C26_EndedAtFixedStep]_vars

\* A step that changes a trace's end timestamp is a Trace.end at the present
\* clock value: it pushes a payload and touches no span.
C26_EndedAtStep ==
    \A tr \in TraceIds :
        traces'[tr].endedAt # traces[tr].endedAt =>
            /\ traces'[tr].endedAt = V(now)
            /\ Len(traceBuffer') = Len(traceBuffer) + 1
            /\ traceBuffer'[Len(traceBuffer')].id = tr
            /\ traceBuffer'[Len(traceBuffer')].ended_at = V(now)
            /\ spans' = spans

\* C26 as amended: every call of Trace.end sets endedAt to the clock value
\* of that call, so a further Trace.end at a later time overwrites it; no
\* other operation changes endedAt.
C26_EndedAtSetByEveryEnd == [][C26_EndedAtStep]_vars

\* A trace was ended at 0 and again at 1: it carries the later timestamp.
C26_Witness ==
    /\ Len(traces) = 1 /\ Len(traceBuffer) = 2
    /\ traceBuffer[1].ended_at = V(0)
    /\ traces[1].endedAt = V(1)

\* The payloads in the buffer that carry the id of trace tr.
PayloadsOfTrace(tr) == {i \in PayloadIds : traceBuffer[i].id = tr}
\* The last payload of an ended trace shows the trace as it is; a trace that
\* was not ended has none; every end() can be called again.
C27_EndState ==
    /\ \A tr \in TraceIds :
           IF TraceEnded(tr)
           THEN \E i \in PayloadsOfTrace(tr) :
                    /\ \A j \in PayloadsOfTrace(tr) : j <= i
                    /\ traceBuffer[i].status = traces[tr].status
                    /\ traceBuffer[i].ended_at = traces[tr].endedAt
                    /\ traceBuffer[i].output = OrNull(traces[tr].output)
           ELSE PayloadsOfTrace(tr) = {}
    /\ \A tr \in TraceIds, o \in TraceEndOptionsSet :
           Len(traceBuffer) < MaxPayloads => ENABLED EndTrace(tr, o)
    /\ \A sp \in SpanIds, o \in SpanEndOptionsSet : ENABLED EndSpan(sp, o)
\* A step that lengthens the buffer appends one payload, of an ended trace,
\* showing the spans as they are.
C27_EndStep ==
    Len(traceBuffer') # Len(traceBuffer) =>
        /\ Len(traceBuffer') = Len(traceBuffer) + 1
        /\ SubSeq(traceBuffer', 1, Len(traceBuffer)) = traceBuffer
        /\ LET p == traceBuffer'[Len(traceBuffer')]
           IN /\ p.id \in TraceIds
              /\ p.status = traces'[p.id].status
              /\ Len(p.spans) = Len(traces[p.id].spans)
              /\ \A k \in 1..Len(p.spans) :
                     p.spans[k].status = OrNull(spans[traces[p.id].spans[k]].status)

\* C27: every call of Trace.end appends exactly one payload carrying that
\* trace's id to the tail of the trace buffer and does not throw; a trace
\* ended again contributes a further payload with the same id that shows the
\* trace as it is at the later call; a repeated Span.end does not throw.
C27_EveryEndPushesOnePayload == []C27_EndState /\ [][C27_EndStep]_vars

\* A trace was ended with "error" and then again with "completed" and an
\* output, after its span had been ended twice.
C27_Witness ==
    /\ Len(traceBuffer) = 2
    /\ traceBuffer[1].id = traceBuffer[2].id
    /\ traceBuffer[1].status = "error"
    /\ traceBuffer[2].status = "completed"
    /\ traceBuffer[2].output = V("response")
    /\ Len(traceBuffer[1].spans) = 1
    /\ Len(traceBuffer[2].spans) = 1
    /\ traceBuffer[1].spans[1].status = V("ok")
    /\ traceBuffer[2].spans[1].status = V("error")

----------------------------------------------------------------------------
(* The instrumented call from invocation to settlement (checked under      *)
(* SpecCall).                                                              *)

\* The cost the code's arithmetic gives with rate for the rates found.
CostAt(rate, i, o) ==
    IF ~Truthy(rate) THEN V(0)
    ELSE IF rate.tag = "rates" THEN V(Priced(rate.v, i, o))
    ELSE VNaN

\* A step that resolves a call records the cost at the rate of the invocation.
C28_CostStep ==
    \A c \in CallIds :
        Resolves(c) =>
            LET sp == spans'[calls[c].span]
            IN sp.cost = CostAt(calls[c].rateAtCall, sp.inputTokens.v, sp.outputTokens.v)

\* C28: the cost recorded for an instrumented call is computed from the rate
\* for the call's model that was in effect when the intercepted method was
\* invoked: a setModelCosts for that model while the provider call is in
\* flight does not change the cost recorded for the call.
C28_CostAtRateOfInvocation == [][C28_CostStep]_vars

\* The chat-style methods.
ChatMethods == {"chat.completions.create", "messages.create"}
\* The serialization of the last message of a messages list.
LastSerialized(msgs) == V([json |-> <<msgs[Len(msgs)]>>])

\* C29: for every instrumented chat-style call (chat.completions.create,
\* messages.create) whose request carries a messages list, the generation
\* span's input is the serialization of the last message of the request, its
\* model is the request's model ("unknown" when the request has none) and
\* its provider is the provider's name.
C29_SpanCarriesLastMessageModelProvider ==
    \A c \in CallIds :
        LET call == calls[c]
            msgs == Opt(call.request, "messages")
            model == Opt(call.request, "model")
        IN (call.method \in ChatMethods /\ msgs.tag = "val") =>
               /\ SpanOfCall(c).input = LastSerialized(msgs.v)
               /\ SpanOfCall(c).model = IF model.tag = "val" THEN model ELSE V("unknown")
               /\ SpanOfCall(c).provider =
                      V(IF call.method = "messages.create" THEN "anthropic" ELSE "openai")

\* A call in flight has a running trace, an open span and no payload; every
\* call invoked the original function once, bound to the client's own object.
C30_InFlightState ==
    \A c \in CallIds :
        /\ calls[c].invoked = 1
        /\ calls[c].boundThis = [tag |-> "target", of |-> OwnerOf(calls[c].method)]
        /\ calls[c].trace \in 1..Len(traces) /\ calls[c].span \in 1..Len(spans)
        /\ TraceOfCall(c).spans = <<calls[c].span>>
        /\ calls[c].pc = "inflight" =>
               /\ TraceOfCall(c).status = "running"
               /\ TraceOfCall(c).endedAt = VUndef
               /\ SpanOfCall(c).status = VUndef
               /\ SpanOfCall(c).latencyMs = VUndef
               /\ PayloadsOfCall(c) = {}
        /\ calls[c].pc # "inflight" =>
               /\ TraceOfCall(c).status \in {"completed", "error"}
               /\ SpanOfCall(c).status \in {V("ok"), V("error")}
\* The trace and the span of a call change, and its payload is pushed, only
\* in the step in which the original call settles; the arguments and the
\* count of invocations never change.
C30_SettleStep ==
    \A c \in CallIds :
        /\ calls'[c].request = calls[c].request
        /\ calls'[c].invoked = calls[c].invoked
        /\ calls'[c].boundThis = calls[c].boundThis
        /\ ( \/ spans'[calls[c].span] # spans[calls[c].span]
             \/ traces'[calls[c].trace] # traces[calls[c].trace]
             \/ \E i \in 1..Len(traceBuffer') :
                    i > Len(traceBuffer) /\ traceBuffer'[i].id = calls[c].trace )
           => /\ calls[c].pc = "inflight"
              /\ calls'[c].pc \in {"resolved", "rejected"}

\* C30: each call of an intercepted method invokes the original function
\* exactly once, with the caller's arguments and with `this` bound to the
\* original nested object, not the wrapper; the trace and span exist from
\* the invocation on, the trace stays "running" and no payload is enqueued
\* while the original call is in flight, and span and trace are ended only
\* in the step in which the original call has settled.
C30_EndedOnlyAfterOriginalSettles == []C30_InFlightState /\ [][C30_SettleStep]_vars

\* Two calls are in flight together, the first of them has settled and the
\* second has not: one payload, and the second call's trace is running.
C30_Witness ==
    /\ Len(calls) = 2
    /\ calls[1].pc = "resolved" /\ calls[2].pc = "inflight"
    /\ calls[2].method = "messages.create"
    /\ calls[2].request \in Requests \ {VUndef}
    /\ Len(traceBuffer) = 1
    /\ traces[calls[2].trace].status = "running"
    /\ traces[calls[1].trace].status = "completed"

----------------------------------------------------------------------------
(* traceGeneration(opts, fn): a trace with one generation span around a    *)
(* callback (SpecGen).  In this specification `calls` holds the calls of   *)
(* traceGeneration.                                                        *)

MaxGens == 2

\* TraceGenerationOptions: name, model and provider; or every field of the
\* first test.
TraceGenerationOptionsSet ==
    { [name |-> "compat-gen", model |-> V("gpt-4o"), provider |-> V("openai"),
       input |-> VUndef, sessionId |-> VUndef, userId |-> VUndef,
       metadata |-> VUndef],
      [name |-> "simple-generation", model |-> V("gpt-4o"), provider |-> V("openai"),
       input |-> V("Hello"), sessionId |-> V("sess-123"), userId |-> V("user-456"),
       metadata |-> V("meta")] }

\* The options traceGeneration gives to startTrace and to startSpan.
GenTraceOptions(opts) ==
    [name |-> opts.name, sessionId |-> opts.sessionId, userId |-> opts.userId,
     input |-> opts.input, metadata |-> opts.metadata,
     promptName |-> VUndef, promptVersion |-> VUndef]
GenSpanOptions(opts) ==
    [spanType |-> "generation", name |-> V(opts.name), model |-> opts.model,
     provider |-> opts.provider, input |-> opts.input, metadata |-> VUndef]

\* What the callback may resolve with.
FnValues == {V("Hi!"), VUndef}

\* `err instanceof Error ? err.message : String(err)`
GenMessage(err) == IF err.tag = "error" THEN err.message ELSE StringOf(err)

\* A variant of the test that lets the catch end the span in every case.
Unguarded(span) == TRUE

\* `!span.status`: the status is undefined, "ok" or "error".
NoStatus(span) == span.status = VUndef

\* traceGeneration is called: the trace and its generation span are created
\* and fn(span) is called, up to `await fn(span)`.
GenStart(opts) ==
    /\ Len(calls) < MaxGens
    /\ LET tid == Len(traces) + 1
           sid == Len(spans) + 1
       IN /\ traces' = Append(traces, [NewTrace(tid, GenTraceOptions(opts), now)
                                          EXCEPT !.spans = <<sid>>])
          /\ spans' = Append(spans, NewSpan(sid, GenSpanOptions(opts), now))
          /\ calls' = Append(calls, [opts |-> opts, trace |-> tid, span |-> sid,
                                     fn |-> "pending", pc |-> "inflight",
                                     settled |-> VUndef, result |-> VUndef])
    /\ UNCHANGED <<now, modelCosts, traceBuffer>>

\* The callback, not yet settled, calls span.end(o) on the span it was given.
FnEndsSpan(g, o) ==
    /\ calls[g].fn = "pending"
    /\ spans' = [spans EXCEPT ![calls[g].span] = SpanEnd(@, o, now)]
    /\ UNCHANGED <<now, modelCosts, traces, calls, traceBuffer>>

\* A variant of the success path that returns without ending the trace.
GenResolveUnended(g, value) ==
    /\ calls[g].pc = "inflight"
    /\ calls' = [calls EXCEPT ![g].fn = "resolved", ![g].settled = value,
                              ![g].pc = "resolved", ![g].result = Returned(value)]
    /\ UNCHANGED <<now, modelCosts, traces, spans, traceBuffer>>

\* The callback resolved with value: the trace is ended "completed" with the
\* span's output and pushed, and value is returned.  The span is left as the
\* callback left it.
GenResolve(g, value) ==
    /\ calls[g].pc = "inflight"
    /\ LET call == calls[g]
           trace == TraceEnd(traces[call.trace], "completed", spans[call.span].output, now)
       IN /\ traces' = [traces EXCEPT ![call.trace] = trace]
          /\ traceBuffer' = pushTrace(TraceToPayload(trace, spans))
          /\ calls' = [calls EXCEPT ![g].fn = "resolved", ![g].settled = value,
                                    ![g].pc = "resolved", ![g].result = Returned(value)]
    /\ UNCHANGED <<now, modelCosts, spans>>

\* The callback threw or rejected with err: the span is ended "error" with a
\* message unless it has a status, the trace is ended "error" and pushed,
\* and err is thrown again.
GenReject(g, err) ==
    /\ calls[g].pc = "inflight"
    /\ LET call == calls[g]
           ended == IF NoStatus(spans[call.span])
                    THEN [spans EXCEPT ![call.span] =
                             SpanEnd(@, SpanEndOptions(V("error"), VUndef, VUndef, VUndef,
                                                       V(GenMessage(err)), VUndef), now)]
                    ELSE spans
           trace == TraceEnd(traces[call.trace], "error", VUndef, now)
       IN /\ spans' = ended
          /\ traces' = [traces EXCEPT ![call.trace] = trace]
          /\ traceBuffer' = pushTrace(TraceToPayload(trace, ended))
          /\ calls' = [calls EXCEPT ![g].fn = "threw", ![g].settled = err,
                                    ![g].pc = "rejected", ![g].result = Rethrown(err)]
    /\ UNCHANGED <<now, modelCosts>>

InitGen == PipeInit /\ CallIdle /\ WrapIdle

NextGen ==
    \/ \E o \in TraceGenerationOptionsSet : GenStart(o) /\ UNCHANGED callFrame
    \/ \E g \in 1..Len(calls), o \in SpanEndOptionsSet :
           FnEndsSpan(g, o) /\ UNCHANGED callFrame
    \/ \E g \in 1..Len(calls), v \in FnValues :
           GenResolve(g, v) /\ UNCHANGED callFrame
    \/ \E g \in 1..Len(calls), e \in Thrown :
           GenReject(g, e) /\ UNCHANGED callFrame
    \/ Tick /\ UNCHANGED callFrame

SpecGen == InitGen /\ [][NextGen]_vars

\* The one payload of a settled call, with the given trace status.
OnePayload(g, status) ==
    /\ Cardinality(PayloadsOfCall(g)) = 1
    /\ \A i \in PayloadsOfCall(g) :
           /\ traceBuffer[i].status = status
           /\ Len(traceBuffer[i].spans) = 1
           /\ traceBuffer[i].spans[1].id = calls[g].span
           /\ traceBuffer[i].spans[1].span_type = "generation"

\* C21: traceGeneration(opts, fn) resolves with exactly the value fn
\* resolved with, or rejects with exactly the error fn threw; in both cases
\* it has appended exactly one trace payload containing exactly one
\* generation span, with trace status "completed" when fn resolved and
\* "error" when fn threw; before fn settles it has appended none.
C21_SettlesAsFnWithOnePayload ==
    /\ \A g \in CallIds :
           CASE calls[g].fn = "resolved" ->
                    /\ calls[g].pc = "resolved"
                    /\ calls[g].result = calls[g].settled
                    /\ OnePayload(g, "completed")
             [] calls[g].fn = "threw" ->
                    /\ calls[g].pc = "rejected"
                    /\ calls[g].result = calls[g].settled
                    /\ OnePayload(g, "error")
             [] OTHER ->
                    /\ calls[g].pc = "inflight"
                    /\ PayloadsOfCall(g) = {}
    /\ Len(traceBuffer) = Cardinality({g \in CallIds : calls[g].fn # "pending"})

\* Two calls settled: the first rejected with the Error its callback threw,
\* the second resolved with its callback's value.
C21_Witness ==
    /\ Len(calls) = 2 /\ Len(traceBuffer) = 2
    /\ calls[1].pc = "rejected" /\ calls[1].result = ErrorObj("boom")
    /\ calls[2].pc = "resolved" /\ calls[2].result = V("Hi!")
    /\ traceBuffer[1].id = calls[1].trace /\ traceBuffer[1].status = "error"
    /\ traceBuffer[2].id = calls[2].trace /\ traceBuffer[2].status = "completed"

\* C22: whenever a traceGeneration call has settled (fn resolved or fn
\* threw, whether or not fn itself called span.end), the span in the
\* enqueued payload has a non-null status and a non-null latency, and the
\* trace has a status other than "running".
C22_SpanAndTraceEnded ==
    \A g \in CallIds :
        calls[g].pc # "inflight" =>
            \A i \in PayloadsOfCall(g) :
                /\ traceBuffer[i].status # "running"
                /\ \A k \in 1..Len(traceBuffer[i].spans) :
                       /\ traceBuffer[i].spans[k].status # VNull
                       /\ traceBuffer[i].spans[k].latency_ms # VNull

\* The callback of call g throws in this step.
Throws(g) == calls[g].fn = "pending" /\ calls'[g].fn = "threw"
\* The message of a thrown Error, the string form of any other thrown value.
MessageOf(err) ==
    CASE err.tag = "error" -> err.message
      [] err.tag = "val" -> err.v
      [] OTHER -> "undefined"
\* What the step in which the callback throws does to the span and the trace.
C33_ThrowStep ==
    \A g \in CallIds :
        Throws(g) =>
            LET sid == calls[g].span
                tid == calls[g].trace
            IN /\ IF spans[sid].status # VUndef
                  THEN spans'[sid] = spans[sid]
                  ELSE /\ spans'[sid].status = V("error")
                       /\ spans'[sid].errorMessage = V(MessageOf(calls'[g].settled))
                       /\ spans'[sid].latencyMs = V(now - spans[sid].startedAt)
               /\ traces'[tid].status = "error"
               /\ traces'[tid].endedAt = V(now)
               /\ traceBuffer'[Len(traceBuffer')].id = tid
               /\ traceBuffer'[Len(traceBuffer')].status = "error"
               /\ traceBuffer'[Len(traceBuffer')].spans[1].status = spans'[sid].status
               /\ traceBuffer'[Len(traceBuffer')].spans[1].output = OrNull(spans'[sid].output)

\* C33: when the callback of traceGeneration throws, a span the callback
\* had ended is not ended again and keeps every field as the callback set
\* it; a span not yet ended is ended with status "error" and the thrown
\* Error's message (the string form of a value that is no Error) as its
\* errorMessage; in both cases the trace is ended with status "error".
C33_ThrowKeepsEndedSpan == [][C33_ThrowStep]_vars

\* Two callbacks threw: the first had ended its span "ok" with its counts,
\* the second had not and threw an Error with the message "boom".
C33_Witness ==
    /\ Len(calls) = 2
    /\ calls[1].fn = "threw" /\ calls[2].fn = "threw"
    /\ spans[calls[1].span].status = V("ok")
    /\ spans[calls[1].span].inputTokens = V(10)
    /\ traces[calls[1].trace].status = "error"
    /\ calls[2].settled = ErrorObj("boom")
    /\ spans[calls[2].span].status = V("error")
    /\ spans[calls[2].span].errorMessage = V("boom")

====
